---- MODULE Spec2Model ----
(***************************************************************************)
(* Task Lifecycle & Delegation Engine (app/services/task_manager.py) and   *)
(* the rate-limiting middlewares (app/middleware/rate_limit.py).           *)
(*                                                                         *)
(* Python's None is the empty tuple <<>> and a present value v is <<v>>,   *)
(* so that optional fields of one document stay comparable.                *)
(***************************************************************************)
EXTENDS Integers, Sequences, FiniteSets, TLC

VARIABLES
    tasks,      \* the tasks collection: tasks[i] is the document with task_id i
    agents,     \* the agents collection: token_id -> statistics counters
    clock,      \* datetime.utcnow() as the store keeps it (BSON: milliseconds)
    last,       \* the last Engine call: its arguments and what the caller got
    calls,      \* the Engine calls suspended at an await, in the order they began
    mw,         \* the middleware class installed: "RateLimit" or "APIKey"
    minute_requests,    \* RateLimitMiddleware.minute_requests: client -> list
    hour_requests,      \* RateLimitMiddleware.hour_requests: client -> list
    requests,   \* APIKeyRateLimitMiddleware.requests: client -> {minute, hour}
    gnow,       \* datetime.utcnow() of the gateway, in ticks
    inflight,   \* admitted requests suspended in call_next, in dispatch order
    admitted,   \* history: client -> the timestamps of its admitted requests
    glast       \* the gateway's last decision

engineVars == <<tasks, agents, clock, last, calls>>
gateVars ==
    <<mw, minute_requests, hour_requests, requests, gnow, inflight, admitted, glast>>
vars == <<engineVars, gateVars>>

-----------------------------------------------------------------------------
(* Bounds of the model *)

MaxTasks == 1       \* documents the tasks collection may hold under Spec
MaxRetryTasks == 2  \* documents the tasks collection may hold under SpecRetry
MaxClock == 1       \* last millisecond of the clock
MaxStat == 2        \* cap of an agent's total_tasks counter
MaxTime == 4        \* last tick of the gateway's clock
MaxInflight == 2    \* admitted requests that may wait in call_next at once
MaxCalls == 2       \* Engine calls that may be suspended at once
MaxRaceTasks == 3   \* documents the tasks collection may hold under SpecRetryConc
\* The windows and quotas, scaled down.  The source has microsecond
\* timestamps, windows of 60 s and 3600 s and quotas of 60 and 1000.
TicksPerSecond == 2
WindowMinute == 1   \* seconds in timedelta(minutes=1)
WindowHour == 2     \* seconds in timedelta(hours=1)
requests_per_minute == 2
requests_per_hour == 3

-----------------------------------------------------------------------------
(* Values *)

None == <<>>
Some(v) == <<v>>

\* class TaskStatus
PENDING == "pending"
ASSIGNED == "assigned"
IN_PROGRESS == "in_progress"
COMPLETED == "completed"
FAILED == "failed"
CANCELLED == "cancelled"
Statuses == {PENDING, ASSIGNED, IN_PROGRESS, COMPLETED, FAILED, CANCELLED}

\* the default of task_data.get("max_retries", 3)
DefaultMaxRetries == 3

\* The agent directory: agent 1 is registered with an endpoint, agent 2 is
\* registered without one, agent 3 is not registered.
AgentIds == {1, 2, 3}
ExistingAgents == {1, 2}
Endpoint(a) == IF a = 1 THEN Some("http://agent1") ELSE None

\* task_data: of its keys the Engine's control flow reads "max_retries" only,
\* which is absent or whatever integer the caller sent.
Payload(m) == [max_retries |-> m]

\* The calls of create and delegate the model makes: <<agent_id, task_data,
\* group_id>>.
CreateInputs ==
    { <<1, Payload(None), None>>,
      <<1, Payload(Some(-1)), Some("g1")>>,
      <<2, Payload(Some(0)), None>>,
      <<3, Payload(None), None>> }
Results == {None, Some("r1")}
Errors == {None, Some("e1")}
ProbeError == "Agent endpoint is not available"

\* What the network does to one delegation: the liveness probe fails
\* (check_endpoint_availability answers False), or it passes and send_task
\* returns ("ok") or raises (timeout, HTTP status error, connection error).
NetOutcomes == {"unreachable", "ok", "timeout", "rejected", "connection"}

-----------------------------------------------------------------------------
(* The stores *)

TaskIds == 1..Len(tasks)

\* tasks_collection.find_one({"task_id": id}) on a collection ts
FindOne(ts, id) == IF id \in 1..Len(ts) THEN Some(ts[id]) ELSE None

\* TaskManagementService.get_task
get_task(ts, id) == FindOne(ts, id)

\* dict.get(key, default)
DictGet(opt, default) == IF opt = None THEN default ELSE opt[1]

\* a create_task that stores the task as already assigned
TaskDocAssigned(id, agent_id, task_data, group_id, now) ==
    [ task_id |-> id, agent_id |-> agent_id, group_id |-> group_id,
      status |-> ASSIGNED, task_data |-> task_data, result |-> None,
      error |-> None, updated_at |-> Some(now), started_at |-> Some(now),
      completed_at |-> None, retry_count |-> 0,
      max_retries |-> DictGet(task_data.max_retries, DefaultMaxRetries),
      metadata |-> Some("{}") ]

\* TaskManagementService.create_task: the document it inserts; metadata is
\* task_data.get("metadata", {})
TaskDoc(id, agent_id, task_data, group_id, now) ==
    [ task_id |-> id,
      agent_id |-> agent_id,
      group_id |-> group_id,
      status |-> PENDING,
      task_data |-> task_data,
      result |-> None,
      error |-> None,
      updated_at |-> Some(now),
      started_at |-> None,
      completed_at |-> None,
      retry_count |-> 0,
      max_retries |-> DictGet(task_data.max_retries, DefaultMaxRetries),
      metadata |-> Some("{}") ]

\* a create_task that does not look the agent up
create_task_any_agent(db, agent_id, task_data, group_id, now) ==
    LET doc == TaskDoc(Len(db.tasks) + 1, agent_id, task_data, group_id, now)
    IN [db |-> [db EXCEPT !.tasks = Append(@, doc)],
        raised |-> None,
        task |-> Some(doc)]

\* TaskManagementService.create_task on the database db = [tasks, agents]:
\* raises when the agent is unknown, else inserts and returns the document.
create_task(db, agent_id, task_data, group_id, now) ==
    IF agent_id \notin ExistingAgents
    THEN [db |-> db, raised |-> Some("agent not found"), task |-> None]
    ELSE LET doc == TaskDoc(Len(db.tasks) + 1, agent_id, task_data, group_id, now)
         IN [db |-> [db EXCEPT !.tasks = Append(@, doc)],
             raised |-> None,
             task |-> Some(doc)]

\* update_data of update_task_status: a field holds None when the $set does
\* not name it.  "started_at" is never a key of update_data at line 227.
UpdateData(status, result, error, metadata, now) ==
    [ status |-> status,
      updated_at |-> Some(now),
      result |-> result,
      error |-> error,
      metadata |-> metadata,
      started_at |-> IF status = IN_PROGRESS THEN Some(now) ELSE None,
      completed_at |-> IF status = COMPLETED THEN Some(now) ELSE None ]

\* {"$set": update_data} applied to one document
SetFields(doc, upd) ==
    [ doc EXCEPT
        !.status = upd.status,
        !.updated_at = upd.updated_at,
        !.result = IF upd.result # None THEN upd.result ELSE @,
        !.error = IF upd.error # None THEN upd.error ELSE @,
        !.metadata = IF upd.metadata # None THEN upd.metadata ELSE @,
        !.started_at = IF upd.started_at # None THEN upd.started_at ELSE @,
        !.completed_at = IF upd.completed_at # None THEN upd.completed_at ELSE @ ]

\* an update_one that reports a modified document whatever the filter matched
ModifiedCountAlways(ts, id, upd) == 1

\* update_one(...).modified_count: the store counts a matched document only
\* when the $set changed it.
ModifiedCount(ts, id, upd) ==
    IF id \in 1..Len(ts) /\ SetFields(ts[id], upd) # ts[id] THEN 1 ELSE 0

\* an $inc that leaves total_tasks out
IncStatsFieldOnly(ags, a, field) ==
    IF a \notin DOMAIN ags THEN ags
    ELSE [ags EXCEPT ![a] = [@ EXCEPT ![field] = @ + 1]]

\* agents_collection.update_one({"token_id": a}, {"$inc": ...})
IncStats(ags, a, field) ==
    IF a \notin DOMAIN ags THEN ags
    ELSE [ags EXCEPT ![a] =
            [@ EXCEPT ![field] = @ + 1, !.total_tasks = @ + 1]]

\* TaskManagementService._update_agent_stats
update_agent_stats(db, task_id, status) ==
    LET task == FindOne(db.tasks, task_id) IN
    IF task = None THEN db
    ELSE IF status = COMPLETED
         THEN [db EXCEPT !.agents = IncStats(@, task[1].agent_id, "completed_tasks")]
    ELSE IF status = FAILED
         THEN [db EXCEPT !.agents = IncStats(@, task[1].agent_id, "failed_tasks")]
    ELSE db

\* an update_task_status that counts a task only when its status changes
update_task_status_counting_once(db, task_id, status, result, error, metadata, now) ==
    LET upd == UpdateData(status, result, error, metadata, now)
        n == ModifiedCount(db.tasks, task_id, upd)
        written == IF task_id \in 1..Len(db.tasks)
                   THEN [db EXCEPT !.tasks[task_id] = SetFields(@, upd)]
                   ELSE db
    IN IF n > 0
       THEN [db |-> IF db.tasks[task_id].status = status THEN written
                    ELSE update_agent_stats(written, task_id, status),
             ret |-> TRUE]
       ELSE [db |-> written, ret |-> FALSE]

\* TaskManagementService.update_task_status
update_task_status(db, task_id, status, result, error, metadata, now) ==
    LET upd == UpdateData(status, result, error, metadata, now)
        n == ModifiedCount(db.tasks, task_id, upd)
        written == IF task_id \in 1..Len(db.tasks)
                   THEN [db EXCEPT !.tasks[task_id] = SetFields(@, upd)]
                   ELSE db
    IN IF n > 0
       THEN [db |-> update_agent_stats(written, task_id, status), ret |-> TRUE]
       ELSE [db |-> written, ret |-> FALSE]

\* TaskManagementService.cancel_task
cancel_task(db, task_id, now) ==
    update_task_status(db, task_id, CANCELLED, None, None, None, now)

\* a delegate_task that takes the created task back when the agent has no
\* endpoint
delegate_task_rollback(db, agent_id, task_data, group_id, now, net) ==
    LET c == create_task(db, agent_id, task_data, group_id, now) IN
    IF c.raised # None
    THEN [db |-> db, raised |-> c.raised, task |-> None, probes |-> 0, sends |-> 0]
    ELSE IF Endpoint(agent_id) = None
    THEN [db |-> db, raised |-> Some("no endpoint"), task |-> None,
          probes |-> 0, sends |-> 0]
    ELSE IF net = "unreachable"
    THEN [db |-> update_task_status(c.db, c.task[1].task_id, FAILED, None,
                                    Some(ProbeError), None, now).db,
          raised |-> None, task |-> c.task, probes |-> 1, sends |-> 0]
    ELSE IF net = "ok"
    THEN [db |-> update_task_status(c.db, c.task[1].task_id, ASSIGNED, None,
                                    None, Some("a2a_response"), now).db,
          raised |-> None, task |-> c.task, probes |-> 1, sends |-> 1]
    ELSE [db |-> c.db, raised |-> None, task |-> c.task, probes |-> 1, sends |-> 1]

\* a delegate_task that records a failed send as a failure of the task
delegate_task_send_recorded(db, agent_id, task_data, group_id, now, net) ==
    LET c == create_task(db, agent_id, task_data, group_id, now) IN
    IF c.raised # None
    THEN [db |-> db, raised |-> c.raised, task |-> None, probes |-> 0, sends |-> 0]
    ELSE IF Endpoint(agent_id) = None
    THEN [db |-> c.db, raised |-> Some("no endpoint"), task |-> None,
          probes |-> 0, sends |-> 0]
    ELSE IF net = "unreachable"
    THEN [db |-> update_task_status(c.db, c.task[1].task_id, FAILED, None,
                                    Some(ProbeError), None, now).db,
          raised |-> None, task |-> c.task, probes |-> 1, sends |-> 0]
    ELSE IF net = "ok"
    THEN [db |-> update_task_status(c.db, c.task[1].task_id, ASSIGNED, None,
                                    None, Some("a2a_response"), now).db,
          raised |-> None, task |-> c.task, probes |-> 1, sends |-> 1]
    ELSE [db |-> update_task_status(c.db, c.task[1].task_id, FAILED, None,
                                    Some(net), None, now).db,
          raised |-> None, task |-> c.task, probes |-> 1, sends |-> 1]

\* TaskManagementService.delegate_task.  net is what the network does;
\* probes and sends count the calls made to the transport.  The task returned
\* is the dictionary create_task built: the update_task_status calls that
\* follow write to the store only.
delegate_task(db, agent_id, task_data, group_id, now, net) ==
    LET c == create_task(db, agent_id, task_data, group_id, now) IN
    IF c.raised # None
    THEN [db |-> db, raised |-> c.raised, task |-> None, probes |-> 0, sends |-> 0]
    ELSE IF Endpoint(agent_id) = None
    THEN [db |-> c.db, raised |-> Some("no endpoint"), task |-> None,
          probes |-> 0, sends |-> 0]
    ELSE IF net = "unreachable"
    THEN [db |-> update_task_status(c.db, c.task[1].task_id, FAILED, None,
                                    Some(ProbeError), None, now).db,
          raised |-> None, task |-> c.task, probes |-> 1, sends |-> 0]
    ELSE IF net = "ok"
    THEN [db |-> update_task_status(c.db, c.task[1].task_id, ASSIGNED, None,
                                    None, Some("a2a_response"), now).db,
          raised |-> None, task |-> c.task, probes |-> 1, sends |-> 1]
    ELSE [db |-> c.db, raised |-> None, task |-> c.task, probes |-> 1, sends |-> 1]

\* an update_one of retry_task without the $inc
RetryUpdateWithoutInc(doc, now) ==
    [doc EXCEPT !.status = PENDING,
                !.error = None,
                !.updated_at = Some(now)]

\* the update_one of retry_task: {"$inc": {"retry_count": 1}, "$set": {...}}
RetryUpdate(doc, now) ==
    [doc EXCEPT !.retry_count = @ + 1,
                !.status = PENDING,
                !.error = None,
                !.updated_at = Some(now)]

\* a comparison that lets one retry too many through
RetriesExhaustedStrict(doc) == doc.retry_count > doc.max_retries

\* the third check of retry_task: task["retry_count"] >= task["max_retries"]
RetriesExhausted(doc) == doc.retry_count >= doc.max_retries

\* TaskManagementService.retry_task
retry_task(db, task_id, now, net) ==
    LET task == get_task(db.tasks, task_id)
        fail(msg) == [db |-> db, raised |-> Some(msg), task |-> None,
                      probes |-> 0, sends |-> 0]
    IN IF task = None THEN fail("task not found")
       ELSE IF task[1].status # FAILED THEN fail("not in failed status")
       ELSE IF RetriesExhausted(task[1])
       THEN fail("reached max retries")
       ELSE delegate_task([db EXCEPT !.tasks[task_id] = RetryUpdate(@, now)],
                          task[1].agent_id, task[1].task_data, task[1].group_id,
                          now, net)

-----------------------------------------------------------------------------
(* The rate-limiting middlewares *)

\* a list of unchecked paths that leaves the health check out
BypassPathsWithoutHealth == {"/", "/docs", "/redoc", "/openapi.json"}

\* the paths dispatch lets through unchecked
BypassPaths == {"/health", "/", "/docs", "/redoc", "/openapi.json"}

\* The callers of the model: the headers X-API-Key and X-Forwarded-For (the
\* list of its comma-separated entries) and request.client.host.
Callers ==
    { [api_key |-> None, forwarded_for |-> None, host |-> Some("a")],
      [api_key |-> Some("k1"), forwarded_for |-> None, host |-> Some("a")] }
Paths == {"/health", "/api/v1/tasks"}

\* RateLimitMiddleware._get_client_id: f"key:{api_key}" or f"ip:{origin}"
get_client_id(caller) ==
    IF caller.api_key # None THEN <<"key", caller.api_key[1]>>
    ELSE IF caller.forwarded_for # None THEN <<"ip", caller.forwarded_for[1][1]>>
    ELSE <<"ip", DictGet(caller.host, "unknown")>>

\* APIKeyRateLimitMiddleware.dispatch: the client_id it passes on
api_key_client_id(caller) ==
    IF caller.api_key = None THEN <<"anonymous">> ELSE <<caller.api_key[1]>>

\* APIKeyRateLimitMiddleware.api_keys is created empty and never filled, so
\* api_keys.get(api_key, {}).get("tier", "free") answers "free".
api_key_tier(caller) == "free"

\* APIKeyRateLimitMiddleware.tier_limits (60/1000, 120/5000, 300/20000)
tier_limits(tier) ==
    IF tier = "basic"
    THEN [minute |-> 2 * requests_per_minute, hour |-> 5 * requests_per_hour]
    ELSE IF tier = "pro"
    THEN [minute |-> 5 * requests_per_minute, hour |-> 20 * requests_per_hour]
    ELSE [minute |-> requests_per_minute, hour |-> requests_per_hour]

\* the literal Retry-After headers of APIKeyRateLimitMiddleware
RetryAfterMinute == 60
RetryAfterHour == 3600

\* a timedelta of whole seconds, in ticks
Ticks(seconds) == seconds * TicksPerSecond

\* int(timedelta.total_seconds()): truncation towards zero
WholeSeconds(ticks) ==
    IF ticks >= 0 THEN ticks \div TicksPerSecond ELSE -((-ticks) \div TicksPerSecond)

\* [ts for ts in list if ts > cutoff]
Prune(list, cutoff) == SelectSeq(list, LAMBDA ts : ts > cutoff)

\* a comparison that lets one request too many through
OverLimitStrict(n, limit) == n > limit

\* the comparison of a pruned list's length with the limit
OverLimit(n, limit) == n >= limit

\* RateLimitMiddleware._check_rate_limit: the storage it leaves, whether it
\* raised HTTP 429 and the Retry-After it sent
check_rate_limit(storage, client_id, now, window, limit) ==
    IF client_id \notin DOMAIN storage
    THEN [storage |-> storage, raised |-> FALSE, retry_after |-> 0]
    ELSE LET cutoff == now - window
             kept == Prune(storage[client_id], cutoff)
             st == [storage EXCEPT ![client_id] = kept]
         IN IF OverLimit(Len(kept), limit)
            THEN [storage |-> st, raised |-> TRUE,
                  retry_after |-> WholeSeconds(kept[1] - cutoff)]
            ELSE [storage |-> st, raised |-> FALSE, retry_after |-> 0]

\* dict[client_id] = [] when client_id is no key of it
WithKey(storage, client_id, empty) ==
    [c \in DOMAIN storage \cup {client_id} |->
        IF c \in DOMAIN storage THEN storage[c] ELSE empty]

\* a _record_request that assigns the list instead of appending to it
record_request_assign(storage, client_id, now) ==
    [WithKey(storage, client_id, <<>>) EXCEPT ![client_id] = <<now>>]

\* RateLimitMiddleware._record_request, for one of its two dictionaries
record_request(storage, client_id, now) ==
    [WithKey(storage, client_id, <<>>) EXCEPT ![client_id] = Append(@, now)]

\* a dispatch that records the request before it knows the checks' outcome
rate_limit_dispatch_recording(mr, hr, caller, now) ==
    LET client_id == get_client_id(caller)
        m == check_rate_limit(mr, client_id, now, Ticks(WindowMinute),
                              requests_per_minute)
        h == check_rate_limit(hr, client_id, now, Ticks(WindowHour),
                              requests_per_hour)
        decision == IF m.raised THEN <<"reject", "minute", m.retry_after>>
                    ELSE IF h.raised THEN <<"reject", "hour", h.retry_after>>
                    ELSE <<"admit", "none", 0>>
    IN [minute |-> record_request(m.storage, client_id, now),
        hour |-> record_request(h.storage, client_id, now),
        client_id |-> client_id,
        outcome |-> decision[1], window |-> decision[2],
        retry_after |-> decision[3]]

\* RateLimitMiddleware.dispatch from line 38 to the await of call_next: no
\* await lies between, so the event loop runs it as one step.
rate_limit_dispatch(mr, hr, caller, now) ==
    LET client_id == get_client_id(caller)
        m == check_rate_limit(mr, client_id, now, Ticks(WindowMinute),
                              requests_per_minute)
        h == check_rate_limit(hr, client_id, now, Ticks(WindowHour),
                              requests_per_hour)
    IN IF m.raised
       THEN [minute |-> m.storage, hour |-> hr, client_id |-> client_id,
             outcome |-> "reject", window |-> "minute",
             retry_after |-> m.retry_after]
       ELSE IF h.raised
       THEN [minute |-> m.storage, hour |-> h.storage, client_id |-> client_id,
             outcome |-> "reject", window |-> "hour",
             retry_after |-> h.retry_after]
       ELSE [minute |-> record_request(m.storage, client_id, now),
             hour |-> record_request(h.storage, client_id, now),
             client_id |-> client_id,
             outcome |-> "admit", window |-> "none", retry_after |-> 0]

\* APIKeyRateLimitMiddleware._apply_rate_limit up to the await of call_next
apply_rate_limit(reqs, tier, client_id, now) ==
    LET limits == tier_limits(tier)
        r0 == WithKey(reqs, client_id, [minute |-> <<>>, hour |-> <<>>])
        kept == [minute |-> Prune(r0[client_id].minute, now - Ticks(WindowMinute)),
                 hour |-> Prune(r0[client_id].hour, now - Ticks(WindowHour))]
        r1 == [r0 EXCEPT ![client_id] = kept]
    IN IF OverLimit(Len(kept.minute), limits.minute)
       THEN [requests |-> r1, client_id |-> client_id, outcome |-> "reject",
             window |-> "minute", retry_after |-> RetryAfterMinute]
       ELSE IF OverLimit(Len(kept.hour), limits.hour)
       THEN [requests |-> r1, client_id |-> client_id, outcome |-> "reject",
             window |-> "hour", retry_after |-> RetryAfterHour]
       ELSE [requests |-> [r1 EXCEPT ![client_id] =
                              [minute |-> Append(kept.minute, now),
                               hour |-> Append(kept.hour, now)]],
             client_id |-> client_id, outcome |-> "admit",
             window |-> "none", retry_after |-> 0]

-----------------------------------------------------------------------------
(* Sequential invocation of the Engine: one call runs to its end before the *)
(* next one starts.                                                         *)

DB == [tasks |-> tasks, agents |-> agents]

\* last: op is the call, task_id the identifier it was given, ret the boolean
\* returned, raised the exception that reached the caller, task the task
\* returned, probes and sends the transport calls the call made, before the
\* status a resumed call found in the store
NoCall ==
    [ op |-> "none", task_id |-> None, ret |-> None, raised |-> None,
      task |-> None, probes |-> 0, sends |-> 0, before |-> None ]

NoDecision ==
    [ outcome |-> "none", client_id |-> None, window |-> "none", retry_after |-> 0 ]

EngineInit ==
    /\ tasks = <<>>
    /\ agents = [a \in ExistingAgents |->
                    [completed_tasks |-> 0, failed_tasks |-> 0, total_tasks |-> 0]]
    /\ clock = 0
    /\ last = NoCall
    /\ calls = <<>>

\* both middlewares start with empty dictionaries
GateInit ==
    /\ minute_requests = <<>>
    /\ hour_requests = <<>>
    /\ requests = <<>>
    /\ gnow = 0
    /\ inflight = <<>>
    /\ admitted = <<>>
    /\ glast = NoDecision

Init ==
    /\ EngineInit
    /\ GateInit
    /\ mw = "RateLimit"

\* the bounds of the model, on the state a call leaves: the store holds at
\* most cap documents and no counter passes MaxStat
Within(cap) ==
    /\ Len(tasks') <= cap
    /\ \A a \in DOMAIN agents' : agents'[a].total_tasks <= MaxStat

Create(in) ==
    LET r == create_task(DB, in[1], in[2], in[3], clock) IN
    /\ tasks' = r.db.tasks
    /\ agents' = r.db.agents
    /\ last' = [NoCall EXCEPT !.op = "create", !.raised = r.raised, !.task = r.task]
    /\ UNCHANGED <<clock, calls>>
    /\ UNCHANGED gateVars

Delegate(in, net) ==
    LET r == delegate_task(DB, in[1], in[2], in[3], clock, net) IN
    /\ tasks' = r.db.tasks
    /\ agents' = r.db.agents
    /\ last' = [NoCall EXCEPT !.op = "delegate", !.raised = r.raised,
                              !.task = r.task, !.probes = r.probes,
                              !.sends = r.sends]
    /\ UNCHANGED <<clock, calls>>
    /\ UNCHANGED gateVars

UpdateStatus(id, s, res, err) ==
    LET r == update_task_status(DB, id, s, res, err, None, clock) IN
    /\ tasks' = r.db.tasks
    /\ agents' = r.db.agents
    /\ last' = [NoCall EXCEPT !.op = "updateStatus", !.task_id = Some(id),
                              !.ret = Some(r.ret)]
    /\ UNCHANGED <<clock, calls>>
    /\ UNCHANGED gateVars

Cancel(id) ==
    LET r == cancel_task(DB, id, clock) IN
    /\ tasks' = r.db.tasks
    /\ agents' = r.db.agents
    /\ last' = [NoCall EXCEPT !.op = "cancel", !.task_id = Some(id),
                              !.ret = Some(r.ret)]
    /\ UNCHANGED <<clock, calls>>
    /\ UNCHANGED gateVars

Retry(id, net) ==
    LET r == retry_task(DB, id, clock, net) IN
    /\ tasks' = r.db.tasks
    /\ agents' = r.db.agents
    /\ last' = [NoCall EXCEPT !.op = "retry", !.task_id = Some(id),
                              !.raised = r.raised, !.task = r.task,
                              !.probes = r.probes, !.sends = r.sends]
    /\ UNCHANGED <<clock, calls>>
    /\ UNCHANGED gateVars

\* a millisecond passes between two calls
Tick ==
    /\ clock < MaxClock
    /\ clock' = clock + 1
    /\ last' = [NoCall EXCEPT !.op = "tick"]
    /\ UNCHANGED <<tasks, agents, calls>>
    /\ UNCHANGED gateVars

\* the task identifiers callers pass: the stored ones and one that is not
CallIds == 1..(MaxTasks + 1)

Next ==
    \/ \E in \in CreateInputs : Create(in) /\ Within(MaxTasks)
    \/ \E in \in CreateInputs, net \in NetOutcomes :
            Delegate(in, net) /\ Within(MaxTasks)
    \/ \E id \in CallIds, s \in Statuses, res \in Results, err \in Errors :
            UpdateStatus(id, s, res, err) /\ Within(MaxTasks)
    \/ \E id \in CallIds : Cancel(id)
    \/ \E id \in CallIds, net \in NetOutcomes : Retry(id, net) /\ Within(MaxTasks)
    \/ Tick

Spec == Init /\ [][Next]_vars

\* The Engine driven through failures and retries: tasks that allow no retry
\* or one, and status reports of failure only, so that the store has room for
\* the documents the re-delegations create.
RetryInputs == { <<1, Payload(Some(0)), None>>, <<1, Payload(Some(1)), Some("g1")>> }
RetryCallIds == 1..(MaxRetryTasks + 1)

NextRetry ==
    \/ \E in \in RetryInputs, net \in NetOutcomes :
            Delegate(in, net) /\ Within(MaxRetryTasks)
    \/ \E id \in RetryCallIds, err \in Errors :
            UpdateStatus(id, FAILED, None, err) /\ Within(MaxRetryTasks)
    \/ \E id \in RetryCallIds : Cancel(id)
    \/ \E id \in RetryCallIds, net \in NetOutcomes :
            Retry(id, net) /\ Within(MaxRetryTasks)
    \/ Tick

SpecRetry == Init /\ [][NextRetry]_vars

-----------------------------------------------------------------------------
(* The gateway *)

\* the sequence s without its i-th element
RemoveAt(s, i) == [j \in 1..(Len(s) - 1) |-> IF j < i THEN s[j] ELSE s[j + 1]]

\* dict.get(key): the value under key, or None
FindKey(d, key) == IF key \in DOMAIN d THEN Some(d[key]) ELSE None

\* the timestamps of client_id a check at now finds inside the window
Seen(list, now, window) == Prune(list, now - window)

\* what the installed middleware does with a request of caller at gnow, up to
\* its await of call_next; sawMinute and sawHour are the pruned lists the
\* checks of an admitted request compared with the limits
Admission(caller) ==
    IF mw = "RateLimit"
    THEN LET d == rate_limit_dispatch(minute_requests, hour_requests, caller, gnow)
         IN [minute_requests |-> d.minute, hour_requests |-> d.hour,
             requests |-> requests, client_id |-> d.client_id,
             outcome |-> d.outcome, window |-> d.window,
             retry_after |-> d.retry_after,
             sawMinute |-> IF d.outcome = "admit"
                           THEN Seen(DictGet(FindKey(minute_requests, d.client_id), <<>>),
                                     gnow, Ticks(WindowMinute))
                           ELSE <<>>,
             sawHour |-> IF d.outcome = "admit"
                         THEN Seen(DictGet(FindKey(hour_requests, d.client_id), <<>>),
                                   gnow, Ticks(WindowHour))
                         ELSE <<>>]
    ELSE LET d == apply_rate_limit(requests, api_key_tier(caller),
                                   api_key_client_id(caller), gnow)
         IN [minute_requests |-> minute_requests, hour_requests |-> hour_requests,
             requests |-> d.requests, client_id |-> d.client_id,
             outcome |-> d.outcome, window |-> d.window,
             retry_after |-> d.retry_after,
             sawMinute |-> IF d.outcome = "admit"
                           THEN Seen(DictGet(FindKey(requests, d.client_id),
                                             [minute |-> <<>>, hour |-> <<>>]).minute,
                                     gnow, Ticks(WindowMinute))
                           ELSE <<>>,
             sawHour |-> IF d.outcome = "admit"
                         THEN Seen(DictGet(FindKey(requests, d.client_id),
                                           [minute |-> <<>>, hour |-> <<>>]).hour,
                                   gnow, Ticks(WindowHour))
                         ELSE <<>>]

\* the history of admitted requests with one more of client_id at now
Admitted(log, client_id, now) ==
    [WithKey(log, client_id, <<>>) EXCEPT ![client_id] = Append(@, now)]

\* dispatch of a request to a bypass path: call_next at once
Bypass(path) ==
    /\ path \in BypassPaths
    /\ glast' = [NoDecision EXCEPT !.outcome = "bypass"]
    /\ UNCHANGED <<mw, minute_requests, hour_requests, requests, gnow,
                   inflight, admitted>>
    /\ UNCHANGED engineVars

\* dispatch of one request up to its await of call_next: the checks, the
\* record and, when admitted, the suspension in the handler
Dispatch(caller, path) ==
    /\ path \notin BypassPaths
    /\ LET d == Admission(caller) IN
        /\ d.outcome = "admit" => Len(inflight) < MaxInflight
        /\ minute_requests' = d.minute_requests
        /\ hour_requests' = d.hour_requests
        /\ requests' = d.requests
        /\ glast' = [outcome |-> d.outcome, client_id |-> Some(d.client_id),
                     window |-> d.window, retry_after |-> d.retry_after]
        /\ IF d.outcome = "admit"
           THEN /\ admitted' = Admitted(admitted, d.client_id, gnow)
                /\ inflight' = Append(inflight,
                                      [client_id |-> d.client_id, now |-> gnow,
                                       sawMinute |-> d.sawMinute,
                                       sawHour |-> d.sawHour])
           ELSE UNCHANGED <<admitted, inflight>>
    /\ UNCHANGED <<mw, gnow>>
    /\ UNCHANGED engineVars

\* call_next returns for the i-th suspended request: the headers are computed
\* from copies, the dictionaries stay as they are
Respond(i) ==
    /\ i \in 1..Len(inflight)
    /\ inflight' = RemoveAt(inflight, i)
    /\ glast' = [NoDecision EXCEPT !.outcome = "responded"]
    /\ UNCHANGED <<mw, minute_requests, hour_requests, requests, gnow, admitted>>
    /\ UNCHANGED engineVars

\* one request handled from its arrival to its response before the next
Handle(caller, path) ==
    /\ path \notin BypassPaths
    /\ LET d == Admission(caller) IN
        /\ minute_requests' = d.minute_requests
        /\ hour_requests' = d.hour_requests
        /\ requests' = d.requests
        /\ glast' = [outcome |-> d.outcome, client_id |-> Some(d.client_id),
                     window |-> d.window, retry_after |-> d.retry_after]
        /\ admitted' = IF d.outcome = "admit"
                       THEN Admitted(admitted, d.client_id, gnow)
                       ELSE admitted
    /\ UNCHANGED <<mw, gnow, inflight>>
    /\ UNCHANGED engineVars

\* the clock of the gateway moves on
GateTick ==
    /\ gnow < MaxTime
    /\ gnow' = gnow + 1
    /\ glast' = NoDecision
    /\ UNCHANGED <<mw, minute_requests, hour_requests, requests, inflight, admitted>>
    /\ UNCHANGED engineVars

GateInitBoth ==
    /\ EngineInit
    /\ GateInit
    /\ mw \in {"RateLimit", "APIKey"}

\* requests handled one at a time
NextGate ==
    \/ \E caller \in Callers, path \in Paths : Handle(caller, path)
    \/ \E path \in Paths : Bypass(path)
    \/ GateTick

SpecGate == GateInitBoth /\ [][NextGate]_vars

\* requests handled concurrently on one event loop
NextGateConc ==
    \/ \E caller \in Callers, path \in Paths : Dispatch(caller, path)
    \/ \E path \in Paths : Bypass(path)
    \/ \E i \in 1..MaxInflight : Respond(i)
    \/ GateTick

SpecGateConc == GateInitBoth /\ [][NextGateConc]_vars

\* Two callers that present no API key and connect from different hosts.
OriginCallers ==
    { [api_key |-> None, forwarded_for |-> None, host |-> Some("a")],
      [api_key |-> None, forwarded_for |-> None, host |-> Some("b")] }

\* the key under which the installed middleware keeps the lists of caller
ClientKey(m, caller) ==
    IF m = "RateLimit" THEN get_client_id(caller) ELSE api_key_client_id(caller)

NextOrigins ==
    \/ \E caller \in OriginCallers : Handle(caller, "/api/v1/tasks")
    \/ GateTick

SpecOrigins == GateInitBoth /\ [][NextOrigins]_vars

-----------------------------------------------------------------------------
(* The application *)

\* main.py: the middleware classes the application adds to its stack
app_middleware == {"CORSMiddleware"}

\* the rate limiter of the application's stack, "none" when it has none
InstalledLimiter ==
    IF "RateLimitMiddleware" \in app_middleware THEN "RateLimit"
    ELSE IF "APIKeyRateLimitMiddleware" \in app_middleware THEN "APIKey"
    ELSE "none"

AppInit ==
    /\ EngineInit
    /\ GateInit
    /\ mw = InstalledLimiter

\* A route handler of the tasks router runs for a request: under a rate
\* limiter only for a request that was admitted and waits in call_next, with
\* no rate limiter in the stack for every request.
Serve(handler) ==
    /\ mw # "none" => Len(inflight) > 0
    /\ handler

\* the routes of api/v1/tasks.py that call the Engine
NextApp ==
    \/ \E in \in RetryInputs, net \in NetOutcomes :
            Serve(Delegate(in, net)) /\ Within(MaxTasks)
    \/ \E id \in CallIds, s \in Statuses, res \in Results, err \in Errors :
            Serve(UpdateStatus(id, s, res, err)) /\ Within(MaxTasks)
    \/ \E id \in CallIds : Serve(Cancel(id))
    \/ \E id \in CallIds, net \in NetOutcomes :
            Serve(Retry(id, net)) /\ Within(MaxTasks)
    \/ Tick

SpecApp == AppInit /\ [][NextApp]_vars

-----------------------------------------------------------------------------
(* Concurrent invocation of the Engine: every await of a coroutine is a      *)
(* point where the event loop may run another call.                          *)

\* a suspended call: delegate waits for the probe (stage "probe") or for the
\* send (stage "send"), update_task_status for _update_agent_stats (stage
\* "stats"), retry_task for its update_one (stage "write")
SuspendedCall(op, stage, task_id, status, reachable, probes, sends) ==
    [ op |-> op, stage |-> stage, task_id |-> task_id, status |-> status,
      reachable |-> reachable, probes |-> probes, sends |-> sends ]

\* delegate_task up to its await of check_endpoint_availability
delegate_begin(db, agent_id, task_data, group_id, now) ==
    LET c == create_task(db, agent_id, task_data, group_id, now) IN
    IF c.raised # None
    THEN [db |-> db, raised |-> c.raised, call |-> None]
    ELSE IF Endpoint(agent_id) = None
    THEN [db |-> c.db, raised |-> Some("no endpoint"), call |-> None]
    ELSE [db |-> c.db, raised |-> None,
          call |-> Some(SuspendedCall("delegate", "probe", c.task[1].task_id,
                                      None, None, 1, 0))]

\* the write of delegate_task after a probe that answered False
probe_failed_write(db, task_id, now) ==
    update_task_status(db, task_id, FAILED, None, Some(ProbeError), None, now)

\* a write of the response that a cancelled task no longer takes
assigned_write_unless_cancelled(db, task_id, now) ==
    IF db.tasks[task_id].status = CANCELLED THEN [db |-> db, ret |-> FALSE]
    ELSE update_task_status(db, task_id, ASSIGNED, None, None,
                            Some("a2a_response"), now)

\* the write of delegate_task after send_task returned the response
assigned_write(db, task_id, now) ==
    update_task_status(db, task_id, ASSIGNED, None, None, Some("a2a_response"), now)

\* a delegate_task that sends the task whatever the probe answered
probe_returned_sending_anyway(db, call, is_available, now) ==
    [db |-> db,
     call |-> Some([call EXCEPT !.stage = "send", !.reachable = Some(is_available),
                                !.sends = @ + 1])]

\* delegate_task from the probe's answer to its return or to the await of
\* send_task
probe_returned(db, call, is_available, now) ==
    IF ~is_available
    THEN [db |-> probe_failed_write(db, call.task_id, now).db, call |-> None]
    ELSE [db |-> db,
          call |-> Some([call EXCEPT !.stage = "send", !.reachable = Some(TRUE),
                                     !.sends = @ + 1])]

\* delegate_task from the end of send_task to its return: the response is
\* written, an exception is logged
send_returned(db, call, net, now) ==
    IF net = "ok" THEN assigned_write(db, call.task_id, now).db ELSE db

\* update_task_status up to its await of _update_agent_stats
update_write(db, task_id, status, result, error, metadata, now) ==
    LET upd == UpdateData(status, result, error, metadata, now)
        n == ModifiedCount(db.tasks, task_id, upd)
        written == IF task_id \in 1..Len(db.tasks)
                   THEN [db EXCEPT !.tasks[task_id] = SetFields(@, upd)]
                   ELSE db
    IN [db |-> written, modified |-> n > 0]

\* an _update_agent_stats that counts the status it finds in the store
update_agent_stats_of_stored(db, task_id, status) ==
    LET task == FindOne(db.tasks, task_id) IN
    IF task = None THEN db
    ELSE IF task[1].status = COMPLETED
         THEN [db EXCEPT !.agents = IncStats(@, task[1].agent_id, "completed_tasks")]
    ELSE IF task[1].status = FAILED
         THEN [db EXCEPT !.agents = IncStats(@, task[1].agent_id, "failed_tasks")]
    ELSE db

\* _update_agent_stats as the resumed update_task_status calls it
update_stats(db, task_id, status) == update_agent_stats(db, task_id, status)

\* retry_task up to its await of update_one: the read and the three checks
retry_read(db, task_id) ==
    LET task == get_task(db.tasks, task_id) IN
    IF task = None THEN Some("task not found")
    ELSE IF task[1].status # FAILED THEN Some("not in failed status")
    ELSE IF RetriesExhausted(task[1]) THEN Some("reached max retries")
    ELSE None

\* retry_task from its update_one to its return
retry_write(db, task_id, now, net) ==
    delegate_task([db EXCEPT !.tasks[task_id] = RetryUpdate(@, now)],
                  db.tasks[task_id].agent_id, db.tasks[task_id].task_data,
                  db.tasks[task_id].group_id, now, net)

\* the status the store holds for task_id
StoredStatus(task_id) == Some(tasks[task_id].status)

DelegateBegin(in) ==
    LET r == delegate_begin(DB, in[1], in[2], in[3], clock) IN
    /\ r.call # None => Len(calls) < MaxCalls
    /\ tasks' = r.db.tasks
    /\ agents' = r.db.agents
    /\ calls' = IF r.call = None THEN calls ELSE Append(calls, r.call[1])
    /\ last' = [NoCall EXCEPT !.op = "delegate_begin", !.raised = r.raised]
    /\ UNCHANGED clock
    /\ UNCHANGED gateVars

ProbeReturns(i, is_available) ==
    /\ i \in 1..Len(calls)
    /\ calls[i].op = "delegate"
    /\ calls[i].stage = "probe"
    /\ LET r == probe_returned(DB, calls[i], is_available, clock) IN
        /\ tasks' = r.db.tasks
        /\ agents' = r.db.agents
        /\ calls' = IF r.call = None THEN RemoveAt(calls, i)
                    ELSE [calls EXCEPT ![i] = r.call[1]]
        /\ last' = [NoCall EXCEPT !.op = "probe_returned",
                                  !.task_id = Some(calls[i].task_id),
                                  !.ret = Some(is_available),
                                  !.probes = calls[i].probes,
                                  !.sends = IF r.call = None THEN calls[i].sends
                                            ELSE r.call[1].sends,
                                  !.before = StoredStatus(calls[i].task_id)]
    /\ UNCHANGED clock
    /\ UNCHANGED gateVars

SendReturns(i, net) ==
    /\ i \in 1..Len(calls)
    /\ calls[i].op = "delegate"
    /\ calls[i].stage = "send"
    /\ LET db == send_returned(DB, calls[i], net, clock) IN
        /\ tasks' = db.tasks
        /\ agents' = db.agents
    /\ calls' = RemoveAt(calls, i)
    /\ last' = [NoCall EXCEPT !.op = "send_returned",
                              !.task_id = Some(calls[i].task_id),
                              !.probes = calls[i].probes,
                              !.sends = calls[i].sends,
                              !.before = StoredStatus(calls[i].task_id)]
    /\ UNCHANGED clock
    /\ UNCHANGED gateVars

UpdateWrite(id, s, res, err) ==
    LET r == update_write(DB, id, s, res, err, None, clock) IN
    /\ r.modified => Len(calls) < MaxCalls
    /\ tasks' = r.db.tasks
    /\ agents' = r.db.agents
    /\ calls' = IF r.modified
                THEN Append(calls, SuspendedCall("updateStatus", "stats", id,
                                                 Some(s), None, 0, 0))
                ELSE calls
    /\ last' = [NoCall EXCEPT !.op = "update_write", !.task_id = Some(id),
                              !.ret = IF r.modified THEN None ELSE Some(FALSE)]
    /\ UNCHANGED clock
    /\ UNCHANGED gateVars

UpdateStats(i) ==
    /\ i \in 1..Len(calls)
    /\ calls[i].op = "updateStatus"
    /\ LET db == update_stats(DB, calls[i].task_id, calls[i].status[1]) IN
        /\ tasks' = db.tasks
        /\ agents' = db.agents
    /\ calls' = RemoveAt(calls, i)
    /\ last' = [NoCall EXCEPT !.op = "update_stats",
                              !.task_id = Some(calls[i].task_id),
                              !.ret = Some(TRUE),
                              !.before = StoredStatus(calls[i].task_id)]
    /\ UNCHANGED clock
    /\ UNCHANGED gateVars

RetryRead(id) ==
    LET raised == retry_read(DB, id) IN
    /\ raised = None => Len(calls) < MaxCalls
    /\ calls' = IF raised = None
                THEN Append(calls, SuspendedCall("retry", "write", id, None,
                                                 None, 0, 0))
                ELSE calls
    /\ last' = [NoCall EXCEPT !.op = "retry_read", !.task_id = Some(id),
                              !.raised = raised]
    /\ UNCHANGED <<tasks, agents, clock>>
    /\ UNCHANGED gateVars

RetryWrite(i, net) ==
    /\ i \in 1..Len(calls)
    /\ calls[i].op = "retry"
    /\ LET r == retry_write(DB, calls[i].task_id, clock, net) IN
        /\ tasks' = r.db.tasks
        /\ agents' = r.db.agents
        /\ last' = [NoCall EXCEPT !.op = "retry_write",
                                  !.task_id = Some(calls[i].task_id),
                                  !.raised = r.raised, !.task = r.task,
                                  !.probes = r.probes, !.sends = r.sends,
                                  !.before = StoredStatus(calls[i].task_id)]
    /\ calls' = RemoveAt(calls, i)
    /\ UNCHANGED clock
    /\ UNCHANGED gateVars

\* delegations that overlap with each other and with cancellations
NextDelegConc ==
    \/ \E in \in RetryInputs : DelegateBegin(in) /\ Within(MaxRetryTasks)
    \/ \E i \in 1..MaxCalls, is_available \in BOOLEAN :
            ProbeReturns(i, is_available) /\ Within(MaxRetryTasks)
    \/ \E i \in 1..MaxCalls, net \in NetOutcomes \ {"unreachable"} :
            SendReturns(i, net)
    \/ \E id \in RetryCallIds : Cancel(id)
    \/ Tick

SpecDelegConc == Init /\ [][NextDelegConc]_vars

\* the status reports that overlap under SpecUpdateConc: <<status, result, error>>
UpdateInputs ==
    { <<COMPLETED, Some("r1"), None>>,
      <<FAILED, None, Some("e1")>>,
      <<IN_PROGRESS, None, None>> }

\* status reports that overlap on the tasks of the store
NextUpdateConc ==
    \/ \E in \in CreateInputs : Create(in) /\ Within(MaxTasks)
    \/ \E id \in CallIds, u \in UpdateInputs : UpdateWrite(id, u[1], u[2], u[3])
    \/ \E i \in 1..MaxCalls : UpdateStats(i) /\ Within(MaxTasks)
    \/ Tick

SpecUpdateConc == Init /\ [][NextUpdateConc]_vars

\* the delegation under SpecRetryConc: a task that allows one retry
RaceInputs == { <<1, Payload(Some(1)), Some("g1")>> }
RaceCallIds == 1..MaxRaceTasks

\* retries that overlap on the failed tasks of the store
NextRetryConc ==
    \/ \E in \in RaceInputs, net \in NetOutcomes :
            Delegate(in, net) /\ Within(MaxRaceTasks)
    \/ \E id \in RaceCallIds : RetryRead(id)
    \/ \E i \in 1..MaxCalls, net \in NetOutcomes :
            RetryWrite(i, net) /\ Within(MaxRaceTasks)

SpecRetryConc == Init /\ [][NextRetryConc]_vars

-----------------------------------------------------------------------------
(* The claims *)

\* C1: for every task, after any sequence of Engine calls made one at a
\* time, retry_count <= max_retries.
C1_RetryCountWithinMax ==
    \A i \in 1..Len(tasks) : tasks[i].retry_count <= tasks[i].max_retries

\* C2: for every task, status is completed if and only if completed_at is
\* set, also after calls that move the task out of completed.
C2_CompletedIffCompletedAt ==
    \A i \in 1..Len(tasks) :
        (tasks[i].status = COMPLETED) <=> (tasks[i].completed_at # None)

\* the precondition of retry that task_id fails first, or None
RetryUnmet(ts, task_id) ==
    LET t == get_task(ts, task_id) IN
    IF t = None THEN Some("task not found")
    ELSE IF t[1].status # FAILED THEN Some("not in failed status")
    ELSE IF t[1].retry_count >= t[1].max_retries THEN Some("reached max retries")
    ELSE None

\* C3: a retry whose preconditions are not all met (the task exists, it is
\* failed, retry_count < max_retries, checked in that order) raises the error
\* of the first unmet one, leaves the task store and the agent statistics as
\* they were and calls neither the probe nor the send.
C3_RetryRejectedChangesNothing ==
    [][\A id \in RetryCallIds, net \in NetOutcomes :
          (Retry(id, net) /\ RetryUnmet(tasks, id) # None) =>
              /\ last'.raised = RetryUnmet(tasks, id)
              /\ tasks' = tasks
              /\ agents' = agents
              /\ last'.probes = 0
              /\ last'.sends = 0]_vars

\* a retry was refused for a failed task whose retry_count equals its
\* max_retries after an earlier retry went through
C3_Witness ==
    /\ last.op = "retry"
    /\ last.raised = Some("reached max retries")
    /\ LET t == get_task(tasks, last.task_id[1]) IN
        /\ t # None
        /\ t[1].status = FAILED
        /\ t[1].retry_count = t[1].max_retries
        /\ t[1].retry_count > 0

\* the admitted requests of one history that fall in the window (t - w, t]
InWindow(log, t, w) == {j \in 1..Len(log) : log[j] > t - w /\ log[j] <= t}

\* no window of w ticks that ends at an admitted request holds more than
\* limit admitted requests of the history
RollingWithin(log, w, limit) ==
    \A i \in 1..Len(log) : Cardinality(InWindow(log, log[i], w)) <= limit

\* C4: with requests handled one at a time, the admitted requests of one
\* caller in any rolling minute never exceed the per-minute quota, nor those
\* in any rolling hour the per-hour quota.
C4_RollingQuota ==
    \A c \in DOMAIN admitted :
        /\ RollingWithin(admitted[c], Ticks(WindowMinute), requests_per_minute)
        /\ RollingWithin(admitted[c], Ticks(WindowHour), requests_per_hour)

\* a request is rejected after its caller was admitted more often than the
\* hour's quota: the windows have slid past the caller's first requests
C4_Witness ==
    /\ glast.outcome = "reject"
    /\ \E c \in DOMAIN admitted : Len(admitted[c]) > requests_per_hour

\* every timestamp of list is later than cutoff
AllAfter(list, cutoff) == \A k \in 1..Len(list) : list[k] > cutoff

\* request i was admitted when the window's list held limit - 1 timestamps,
\* and they and its own are still inside the window when request j is checked
StaleBoundary(i, j, saw, w, limit) ==
    /\ Len(saw) = limit - 1
    /\ AllAfter(saw, inflight[j].now - w)
    /\ inflight[i].now > inflight[j].now - w

\* C5: of two requests of one caller in flight together, the first checked
\* when a window held quota - 1 live timestamps, at most one is admitted.
C5_NoStaleAdmission ==
    \A i, j \in 1..Len(inflight) :
        (i < j /\ inflight[i].client_id = inflight[j].client_id) =>
            /\ ~StaleBoundary(i, j, inflight[i].sawMinute, Ticks(WindowMinute),
                              requests_per_minute)
            /\ ~StaleBoundary(i, j, inflight[i].sawHour, Ticks(WindowHour),
                              requests_per_hour)

\* a request is rejected on the minute's quota while the request of the same
\* caller that took the last place is still suspended in its handler
C5_Witness ==
    /\ glast.outcome = "reject"
    /\ glast.window = "minute"
    /\ \E i \in 1..Len(inflight) :
        /\ Some(inflight[i].client_id) = glast.client_id
        /\ Len(inflight[i].sawMinute) = requests_per_minute - 1
        /\ inflight[i].now = gnow

\* C6: create for an existing agent, then get_task of the identifier it
\* returned, gives a pending task with retry_count 0, no result, no error,
\* and the agent identifier and payload of the call.
C6_CreateGetRoundTrip ==
    [][\A in \in CreateInputs :
          (Create(in) /\ in[1] \in ExistingAgents) =>
              /\ last'.raised = None
              /\ last'.task # None
              /\ LET got == get_task(tasks', last'.task[1].task_id) IN
                  /\ got # None
                  /\ got[1].status = PENDING
                  /\ got[1].retry_count = 0
                  /\ got[1].result = None
                  /\ got[1].error = None
                  /\ got[1].agent_id = in[1]
                  /\ got[1].task_data = in[2]]_vars

\* a create went through and the store holds the task it returned
C6_Witness ==
    /\ last.op = "create"
    /\ last.raised = None
    /\ get_task(tasks, last.task[1].task_id) # None

\* C7: for an existing task of agent X, updateStatus(completed, result = r)
\* returns true, the task is then completed with completed_at set and result
\* r, X's completed_tasks is one higher and its failed_tasks the same.
C7_CompletedCountsOnce ==
    [][\A id \in CallIds, res \in Results \ {None}, err \in Errors :
          (id \in 1..Len(tasks) /\ UpdateStatus(id, COMPLETED, res, err)) =>
              LET x == tasks[id].agent_id IN
              /\ last'.ret = Some(TRUE)
              /\ tasks'[id].status = COMPLETED
              /\ tasks'[id].completed_at # None
              /\ tasks'[id].result = res
              /\ agents'[x].completed_tasks = agents[x].completed_tasks + 1
              /\ agents'[x].failed_tasks = agents[x].failed_tasks]_vars

\* C8: a delegate whose liveness probe fails raises nothing and returns a
\* task with status failed and a non-empty error.
C8_ProbeFailureReturnsFailedTask ==
    (last.op = "delegate" /\ last.probes = 1 /\ last.sends = 0) =>
        /\ last.raised = None
        /\ last.task # None
        /\ last.task[1].status = FAILED
        /\ last.task[1].error # None

\* C9: a request rejected on the minute's quota carries a Retry-After that is
\* strictly positive.
C9_RetryAfterPositive ==
    (glast.outcome = "reject" /\ glast.window = "minute") => glast.retry_after > 0

\* C10: cancel of an existing task returns true and leaves it cancelled,
\* whatever its status was.
C10_CancelAlwaysSucceeds ==
    (last.op = "cancel" /\ last.task_id[1] \in 1..Len(tasks)) =>
        /\ last.ret = Some(TRUE)
        /\ tasks[last.task_id[1]].status = CANCELLED

\* a task no operation may move any more: completed, cancelled, or failed with
\* its retries used up
Terminal(doc) ==
    \/ doc.status \in {COMPLETED, CANCELLED}
    \/ doc.status = FAILED /\ doc.retry_count = doc.max_retries

\* C11: completed, cancelled and failed with retry_count = max_retries are
\* terminal: no Engine call changes the status of a task that is in one of them.
C11_TerminalStatesStay ==
    [][\A i \in 1..Len(tasks) :
          Terminal(tasks[i]) => tasks'[i].status = tasks[i].status]_vars

\* C12: a task goes from failed to pending only in a retry of that task, and
\* the step adds exactly 1 to its retry_count.
C12_FailedToPendingOnlyByRetry ==
    [][\A i \in 1..Len(tasks) :
          (tasks[i].status = FAILED /\ tasks'[i].status = PENDING) =>
              /\ last'.op = "retry"
              /\ last'.task_id = Some(i)
              /\ tasks'[i].retry_count = tasks[i].retry_count + 1]_vars

\* C13: a started_at that is set is never overwritten or cleared afterwards:
\* a later updateStatus(in_progress) leaves it at its first value.
C13_StartedAtKept ==
    [][\A i \in 1..Len(tasks) :
          tasks[i].started_at # None =>
              tasks'[i].started_at = tasks[i].started_at]_vars

C15_UnknownAgentPersistsNothing ==
    [][\A in \in CreateInputs, net \in NetOutcomes :
          (/\ last'.op \in {"create", "delegate"}
           /\ in[1] \notin ExistingAgents
           /\ (Create(in) \/ Delegate(in, net))) =>
              /\ last'.raised = Some("agent not found")
              /\ last'.task = None
              /\ tasks' = tasks
              /\ agents' = agents
              /\ last'.probes = 0
              /\ last'.sends = 0]_vars

\* a delegate for an unknown agent was refused while the store held a task
C15_Witness ==
    /\ last.op = "delegate"
    /\ last.raised = Some("agent not found")
    /\ Len(tasks) > 0

\* C16: updateStatus and cancel with a task identifier that matches no task
\* return false, raise nothing, and leave the tasks and every agent's
\* counters as they were.
C16_UnknownTaskReturnsFalse ==
    [][\A id \in CallIds \ (1..Len(tasks)) :
          (/\ last'.task_id = Some(id)
           /\ \/ Cancel(id)
              \/ \E s \in Statuses, res \in Results, err \in Errors :
                    UpdateStatus(id, s, res, err)) =>
              /\ last'.ret = Some(FALSE)
              /\ last'.raised = None
              /\ tasks' = tasks
              /\ agents' = agents]_vars

\* a cancel of an identifier the store does not hold returned false while the
\* store held another task
C16_Witness ==
    /\ last.op = "cancel"
    /\ last.task_id[1] \notin 1..Len(tasks)
    /\ last.ret = Some(FALSE)
    /\ Len(tasks) > 0

\* the minute list and the hour list the middleware m keeps for client_id in
\* its dictionaries mr, hr (RateLimitMiddleware) or rq (APIKeyRateLimitMiddleware)
MinuteLedger(m, mr, rq, client_id) ==
    IF m = "RateLimit" THEN DictGet(FindKey(mr, client_id), <<>>)
    ELSE DictGet(FindKey(rq, client_id), [minute |-> <<>>, hour |-> <<>>]).minute

HourLedger(m, hr, rq, client_id) ==
    IF m = "RateLimit" THEN DictGet(FindKey(hr, client_id), <<>>)
    ELSE DictGet(FindKey(rq, client_id), [minute |-> <<>>, hour |-> <<>>]).hour

\* the keys of the dictionaries
LedgerKeys(mr, hr, rq) == DOMAIN mr \cup DOMAIN hr \cup DOMAIN rq

\* C17: a rejected request is not recorded: the step that rejects it appends
\* to neither list of any caller, and every caller's minute list and hour
\* list hold at most quota-many timestamps after every step.
C17_RejectedNotRecorded ==
    [][\A c \in LedgerKeys(minute_requests', hour_requests', requests') :
          LET minuteBefore == MinuteLedger(mw, minute_requests, requests, c)
              minuteAfter == MinuteLedger(mw', minute_requests', requests', c)
              hourBefore == HourLedger(mw, hour_requests, requests, c)
              hourAfter == HourLedger(mw', hour_requests', requests', c)
          IN /\ Len(minuteAfter) <= tier_limits("free").minute
             /\ Len(hourAfter) <= tier_limits("free").hour
             /\ glast'.outcome = "reject" =>
                    /\ Len(minuteAfter) <= Len(minuteBefore)
                    /\ Len(hourAfter) <= Len(hourBefore)
                    /\ \A k \in 1..Len(minuteAfter) :
                          \E j \in 1..Len(minuteBefore) : minuteBefore[j] = minuteAfter[k]
                    /\ \A k \in 1..Len(hourAfter) :
                          \E j \in 1..Len(hourBefore) : hourBefore[j] = hourAfter[k]]_vars

\* a request was just rejected and its caller's minute list holds exactly the
\* quota
C17_Witness ==
    /\ glast.outcome = "reject"
    /\ \E c \in LedgerKeys(minute_requests, hour_requests, requests) :
        /\ Some(c) = glast.client_id
        /\ Len(MinuteLedger(mw, minute_requests, requests, c)) = tier_limits("free").minute

\* C18: a request to /health, /, /docs, /redoc or /openapi.json is forwarded
\* without an admission decision and leaves every caller's lists as they were.
C18_BypassSkipsAdmission ==
    [][\A caller \in Callers, path \in {"/health", "/", "/docs", "/redoc", "/openapi.json"} :
          (Handle(caller, path) \/ Bypass(path)) =>
              /\ glast'.outcome = "bypass"
              /\ UNCHANGED <<minute_requests, hour_requests, requests, admitted>>]_vars

\* a bypass request was forwarded while a caller's minute window is full
C18_Witness ==
    /\ glast.outcome = "bypass"
    /\ \E c \in LedgerKeys(minute_requests, hour_requests, requests) :
        Len(Seen(MinuteLedger(mw, minute_requests, requests, c), gnow,
                 Ticks(WindowMinute))) >= tier_limits("free").minute

\* C19: two callers without an API key from different network origins have
\* independent ledgers: a request of one leaves the lists the gateway keeps
\* for the other, and with them the other's remaining quota, as they were.
C19_OriginsIndependent ==
    [][\A c1 \in OriginCallers, c2 \in OriginCallers :
          (c1.host # c2.host /\ Handle(c1, "/api/v1/tasks")) =>
              /\ MinuteLedger(mw', minute_requests', requests', ClientKey(mw', c2))
                    = MinuteLedger(mw, minute_requests, requests, ClientKey(mw, c2))
              /\ HourLedger(mw', hour_requests', requests', ClientKey(mw', c2))
                    = HourLedger(mw, hour_requests, requests, ClientKey(mw, c2))]_vars

\* C20: a route handler runs only for a request that the gateway admitted and
\* recorded: whenever an Engine call is made from a route, a request waits in
\* call_next and its timestamp is in its caller's lists.
C20_HandlerAfterAdmission ==
    [][last'.op \in {"create", "delegate", "updateStatus", "cancel", "retry"} =>
          \E i \in 1..Len(inflight) :
              \E k \in 1..Len(admitted[inflight[i].client_id]) :
                  admitted[inflight[i].client_id][k] = inflight[i].now]_vars

\* C21: every updateStatus that returns true with status completed (failed)
\* adds exactly 1 to the owning agent's completed_tasks (failed_tasks) and to
\* its total_tasks, also when the task already had that status.
C21_EveryTerminalUpdateCounts ==
    [][\A id \in 1..Len(tasks), s \in {COMPLETED, FAILED} :
          (/\ last'.op = "updateStatus"
           /\ last'.task_id = Some(id)
           /\ last'.ret = Some(TRUE)
           /\ \E res \in Results, err \in Errors : UpdateStatus(id, s, res, err)) =>
              LET x == tasks[id].agent_id
                  counted == IF s = COMPLETED THEN "completed_tasks" ELSE "failed_tasks"
                  other == IF s = COMPLETED THEN "failed_tasks" ELSE "completed_tasks"
              IN /\ agents'[x][counted] = agents[x][counted] + 1
                 /\ agents'[x].total_tasks = agents[x].total_tasks + 1
                 /\ agents'[x][other] = agents[x][other]]_vars

\* the only task of the store was counted as completed twice
C21_Witness ==
    /\ last.op = "updateStatus"
    /\ last.ret = Some(TRUE)
    /\ Len(tasks) = 1
    /\ tasks[1].status = COMPLETED
    /\ agents[tasks[1].agent_id].completed_tasks = 2

\* C25: delegate for a registered agent without an endpoint raises an error,
\* makes no probe and no send, and leaves the task it created in the store,
\* pending and without an error.
C25_NoEndpointLeavesPendingTask ==
    [][\A in \in CreateInputs, net \in NetOutcomes :
          (/\ last'.op = "delegate"
           /\ in[1] \in ExistingAgents
           /\ Endpoint(in[1]) = None
           /\ Delegate(in, net)) =>
              /\ last'.raised = Some("no endpoint")
              /\ last'.probes = 0
              /\ last'.sends = 0
              /\ Len(tasks') = Len(tasks) + 1
              /\ \A i \in 1..Len(tasks) : tasks'[i] = tasks[i]
              /\ tasks'[Len(tasks) + 1].status = PENDING
              /\ tasks'[Len(tasks) + 1].error = None
              /\ tasks'[Len(tasks) + 1].agent_id = in[1]
              /\ agents' = agents]_vars

\* a delegate raised for the missing endpoint and the store holds a pending
\* task of that agent
C25_Witness ==
    /\ last.op = "delegate"
    /\ last.raised = Some("no endpoint")
    /\ Len(tasks) > 0
    /\ tasks[Len(tasks)].status = PENDING
    /\ Endpoint(tasks[Len(tasks)].agent_id) = None

\* C30: a delegate whose probe fails leaves the stored task failed with an
\* error and adds exactly 1 to the agent's failed_tasks and total_tasks, with
\* completed_tasks unchanged.
C30_ProbeFailureCounted ==
    [][\A in \in CreateInputs :
          (/\ last'.op = "delegate"
           /\ last'.probes = 1
           /\ last'.sends = 0
           /\ Delegate(in, "unreachable")) =>
              LET stored == tasks'[Len(tasks) + 1] IN
              /\ stored.status = FAILED
              /\ stored.error # None
              /\ agents'[in[1]].failed_tasks = agents[in[1]].failed_tasks + 1
              /\ agents'[in[1]].total_tasks = agents[in[1]].total_tasks + 1
              /\ agents'[in[1]].completed_tasks = agents[in[1]].completed_tasks]_vars

\* a delegate found the endpoint unreachable and the agent has a failed task
C30_Witness ==
    /\ last.op = "delegate"
    /\ last.probes = 1
    /\ last.sends = 0
    /\ Len(tasks) > 0
    /\ tasks[Len(tasks)].status = FAILED
    /\ agents[tasks[Len(tasks)].agent_id].failed_tasks > 0

\* the absolute value of an integer
Abs(n) == IF n >= 0 THEN n ELSE -n

\* C24: on every rejection the Retry-After hint, in whole seconds, is the
\* time left until the oldest timestamp kept in the exceeded window leaves
\* that window: oldest + window - now.
C24_RetryAfterIsTimeToExpiry ==
    [][glast'.outcome = "reject" =>
          LET c == glast'.client_id[1]
              w == IF glast'.window = "minute" THEN Ticks(WindowMinute)
                   ELSE Ticks(WindowHour)
              ledger == IF glast'.window = "minute"
                        THEN MinuteLedger(mw, minute_requests, requests, c)
                        ELSE HourLedger(mw, hour_requests, requests, c)
              kept == Seen(ledger, gnow, w)
              remaining == kept[1] + w - gnow
          IN Abs(Ticks(glast'.retry_after) - remaining) < TicksPerSecond]_vars

\* C26: a retry whose preconditions hold adds exactly 1 to the retry_count of
\* the task it was given and clears its error, delegates with that task's
\* payload and group identifier, and returns the task it was given.
C26_RetryReturnsItsTask ==
    [][\A id \in 1..Len(tasks) :
          (/\ last'.op = "retry"
           /\ last'.task_id = Some(id)
           /\ last'.raised = None) =>
              /\ tasks'[id].retry_count = tasks[id].retry_count + 1
              /\ tasks'[id].error = None
              /\ last'.task # None
              /\ last'.task[1].task_data = tasks[id].task_data
              /\ last'.task[1].group_id = tasks[id].group_id
              /\ last'.task[1].task_id = id]_vars

\* the status the store holds for a newly delegated task once the network
\* has done net
StoredAfter(net) ==
    IF net = "unreachable" THEN FAILED
    ELSE IF net = "ok" THEN ASSIGNED
    ELSE PENDING

\* C28: a retry that goes through adds exactly one record with a fresh
\* identifier and retry_count 0, created pending and then moved by the
\* re-delegation's outcome; the original record keeps its identifier, has its
\* retry_count one higher, is pending, and is not touched by that outcome.
C28_RetryAddsOneRecord ==
    [][\A id \in 1..Len(tasks), net \in NetOutcomes :
          (/\ last'.op = "retry"
           /\ last'.task_id = Some(id)
           /\ last'.raised = None
           /\ Retry(id, net)) =>
              LET fresh == Len(tasks) + 1 IN
              /\ Len(tasks') = fresh
              /\ tasks'[fresh].task_id = fresh
              /\ \A i \in 1..Len(tasks) : tasks[i].task_id # fresh
              /\ tasks'[fresh].retry_count = 0
              /\ tasks'[fresh].status = StoredAfter(net)
              /\ tasks'[fresh].agent_id = tasks[id].agent_id
              /\ tasks'[fresh].task_data = tasks[id].task_data
              /\ tasks'[fresh].group_id = tasks[id].group_id
              /\ tasks'[id] = [tasks[id] EXCEPT !.retry_count = @ + 1,
                                                !.status = PENDING,
                                                !.error = None,
                                                !.updated_at = Some(clock)]
              /\ \A i \in 1..Len(tasks) : i # id => tasks'[i] = tasks[i]]_vars

\* a retry went through: the original is pending with retry_count 1 while the
\* record the re-delegation created has failed
C28_Witness ==
    /\ last.op = "retry"
    /\ last.raised = None
    /\ Len(tasks) = 2
    /\ last.task_id = Some(1)
    /\ tasks[1].status = PENDING
    /\ tasks[1].retry_count = 1
    /\ tasks[2].status = FAILED
    /\ tasks[2].retry_count = 0

\* C22: a cancel that completes while the delegation of the task is suspended
\* does not suppress it: the response of a send that then succeeds is
\* written and the task goes from cancelled to assigned, and a probe that
\* then fails takes it from cancelled to failed.
C22_CancelDoesNotSuppressDelegation ==
    [][\A i \in 1..Len(calls) :
          (/\ calls[i].op = "delegate"
           /\ tasks[calls[i].task_id].status = CANCELLED) =>
              /\ SendReturns(i, "ok") =>
                    tasks'[calls[i].task_id].status = ASSIGNED
              /\ ProbeReturns(i, FALSE) =>
                    /\ tasks'[calls[i].task_id].status = FAILED
                    /\ tasks'[calls[i].task_id].error # None]_vars

\* the response of a send was written over a task that a cancel had marked
\* cancelled in the meantime
C22_Witness ==
    /\ last.op = "send_returned"
    /\ last.before = Some(CANCELLED)
    /\ tasks[last.task_id[1]].status = ASSIGNED

\* C23: two overlapping updateStatus calls on one task are last-write-wins
\* per field: each write sets the status and the fields it supplies and leaves
\* result, error and completed_at of an earlier write that it does not
\* supply, and each call's terminal status is counted when it resumes,
\* whatever the store holds by then.
C23_LastWriteWinsPerField ==
    [][/\ \A id \in 1..Len(tasks), u \in UpdateInputs :
            (/\ last'.op = "update_write"
             /\ last'.task_id = Some(id)
             /\ UpdateWrite(id, u[1], u[2], u[3])) =>
                /\ tasks'[id].status = u[1]
                /\ tasks'[id].result = IF u[2] = None THEN tasks[id].result ELSE u[2]
                /\ tasks'[id].error = IF u[3] = None THEN tasks[id].error ELSE u[3]
                /\ u[1] # COMPLETED => tasks'[id].completed_at = tasks[id].completed_at
       /\ \A i \in 1..Len(calls) :
            (last'.op = "update_stats" /\ UpdateStats(i)) =>
                LET x == tasks[calls[i].task_id].agent_id
                    s == calls[i].status[1]
                    completed == IF s = COMPLETED THEN 1 ELSE 0
                    failed == IF s = FAILED THEN 1 ELSE 0
                IN /\ agents'[x].completed_tasks = agents[x].completed_tasks + completed
                   /\ agents'[x].failed_tasks = agents[x].failed_tasks + failed
                   /\ agents'[x].total_tasks = agents[x].total_tasks + completed + failed]_vars

\* one task counts as completed and as failed: the call that completed it
\* resumed after the other call's write had made it failed, and the result
\* and completed_at of the first write are still there
C23_Witness ==
    /\ last.op = "update_stats"
    /\ last.before = Some(FAILED)
    /\ Len(tasks) = 1
    /\ tasks[1].status = FAILED
    /\ tasks[1].result = Some("r1")
    /\ tasks[1].completed_at # None
    /\ agents[tasks[1].agent_id].completed_tasks = 1
    /\ agents[tasks[1].agent_id].failed_tasks = 1

\* C27: in one delegation the task is in the store before the probe runs, the
\* send is issued only after a probe that answered reachable, at most one
\* probe and one send are issued, and none after a probe that failed.
C27_PersistProbeSendOrder ==
    /\ \A i \in 1..Len(calls) :
          calls[i].op = "delegate" =>
              /\ get_task(tasks, calls[i].task_id) # None
              /\ calls[i].probes = 1
              /\ calls[i].stage = "probe" =>
                    calls[i].sends = 0 /\ calls[i].reachable = None
              /\ calls[i].stage = "send" =>
                    calls[i].sends = 1 /\ calls[i].reachable = Some(TRUE)
    /\ last.op \in {"probe_returned", "send_returned"} =>
          /\ last.probes = 1
          /\ last.sends <= 1
          /\ last.ret = Some(FALSE) => last.sends = 0

\* a delegation waits for its send after a probe that passed, with its task
\* pending in the store
C27_Witness ==
    \E i \in 1..Len(calls) :
        /\ calls[i].op = "delegate"
        /\ calls[i].stage = "send"
        /\ calls[i].reachable = Some(TRUE)
        /\ get_task(tasks, calls[i].task_id) # None
        /\ tasks[calls[i].task_id].status = PENDING

\* C29: with retries of one failed task that overlap, each reading the task
\* before either writes, no task ever has more retries than its max_retries.
C29_RaceKeepsRetryBound ==
    \A i \in 1..Len(tasks) : ~(tasks[i].retry_count > tasks[i].max_retries)

====
